---- MODULE Spec2Model ----
(***************************************************************************)
(* Model of src/main.py: one run of main().                                *)
(*                                                                         *)
(*   main -> get_contributions (HTTP GET, 'Not Found' check, locate the    *)
(*           calendar container, one pass over the cells, zero check,      *)
(*           index parsed to dates)                                        *)
(*        -> plot_contributions (start/end, day_of_week, groupby, violins, *)
(*           means, smoothed curve, timeframe)                             *)
(*        -> savefig('contributions.png')                                  *)
(*                                                                         *)
(* The run is sequential; an exception raised anywhere is not caught and   *)
(* ends the run (pc = "failed", err names the exception).                  *)
(*                                                                         *)
(* A cell text is a sequence of one-character strings, so that             *)
(* text.split(' ')[0] and int(...) are computed, not assumed.  A data-date *)
(* value "YYYY-MM-DD" is the triple <<Y, M, D>>; pd.to_datetime turns it   *)
(* into a day number (days since 1970-01-01) or raises.                    *)
(***************************************************************************)
EXTENDS Integers, Sequences, FiniteSets

VARIABLES
    response,       \* what the server answers to the GET (the run's input)
    pc,             \* position of the run in main()
    html,           \* main.py:31  the fetched body
    data,           \* main.py:36  the cells found inside the container
    i,              \* main.py:41  1-based position of the for loop in data
    contributions,  \* main.py:38  the DataFrame, rows in index order
    start,          \* main.py:61
    end,            \* main.py:61
    groups,         \* main.py:63  groupby('day_of_week') result, keyed
    fig,            \* main.py:73  the figure built by plot_contributions
    file,           \* contributions.png on disk
    err             \* the uncaught exception, "" when none

vars == <<response, pc, html, data, i, contributions, start, end, groups, fig, file, err>>

----------------------------------------------------------------------------
(* Bounds of the explored inputs *)

\* longest document over the full cell alphabet (every text x every data-date)
MaxCells == 3
\* longest document over well-formed day cells (needed to reach the renderer:
\* the spline in add_means needs four weekday groups)
MaxDayCells == 4

----------------------------------------------------------------------------
(* Inputs *)

TextEmpty == <<>>
TextNo    == <<"N", "o", " ", "o", "n">>
TextZero  == <<"0", " ", "o", "n">>
TextTwelve == <<"1", "2", " ", "o", "n">>
TextLabel == <<"S", "u", "n">>

Texts == {TextEmpty, TextNo, TextZero, TextTwelve, TextLabel}

\* item.get('data-date'): None when the attribute is absent, else its value
NoAttr    == [present |-> FALSE, value |-> <<>>]
EmptyAttr == [present |-> TRUE,  value |-> <<>>]
DateAttr(y, m, d) == [present |-> TRUE, value |-> <<y, m, d>>]

Mon1 == DateAttr(2024, 1, 1)
Tue2 == DateAttr(2024, 1, 2)
Wed3 == DateAttr(2024, 1, 3)
Thu4 == DateAttr(2024, 1, 4)
Fri5 == DateAttr(2024, 1, 5)
Mon8 == DateAttr(2024, 1, 8)
\* a data-date that is not a calendar date
Feb30 == DateAttr(2024, 2, 30)

DateAttrs == {NoAttr, EmptyAttr, Mon8, Mon1, Feb30}

Cells == [text : Texts, date : DateAttrs]

DayCells == [text : {TextNo, TextTwelve}, date : {Mon1, Tue2, Wed3, Thu4, Fri5}]

SeqUpTo(S, n) == UNION {[1..k -> S] : k \in 0..n}

Docs == SeqUpTo(Cells, MaxCells) \cup SeqUpTo(DayCells, MaxDayCells)

NotFoundBody == [text |-> "Not Found", hasCalendar |-> FALSE, cells |-> <<>>]
NoHtml       == [text |-> "", hasCalendar |-> FALSE, cells |-> <<>>]
Page(has, cells) == [text |-> "<html>", hasCalendar |-> has, cells |-> cells]

Responses ==
    {[ok |-> FALSE, body |-> NoHtml]}
    \cup {[ok |-> TRUE, body |-> NotFoundBody]}
    \cup {[ok |-> TRUE, body |-> Page(FALSE, <<>>)]}
    \cup {[ok |-> TRUE, body |-> Page(TRUE, c)] : c \in Docs}

----------------------------------------------------------------------------
(* str.split(' ')[0] and int() *)

Min(S) == CHOOSE x \in S : \A y \in S : x <= y
Max(S) == CHOOSE x \in S : \A y \in S : x >= y

\* main.py:43  item.text.split(' ')[0]
FirstToken(text) ==
    LET spaces == {k \in 1..Len(text) : text[k] = " "}
    IN  IF spaces = {} THEN text ELSE SubSeq(text, 1, Min(spaces) - 1)

Digits == <<"0", "1", "2", "3", "4", "5", "6", "7", "8", "9">>

IsDigit(c) == \E k \in 1..Len(Digits) : Digits[k] = c

DigitValue(c) == (CHOOSE k \in 1..Len(Digits) : Digits[k] = c) - 1

Unsigned(tok) ==
    IF tok # <<>> /\ tok[1] \in {"+", "-"} THEN Tail(tok) ELSE tok

\* int(s) raises ValueError unless s is an optionally signed run of digits
IsIntLiteral(tok) ==
    LET u == Unsigned(tok)
    IN  u # <<>> /\ \A k \in 1..Len(u) : IsDigit(u[k])

RECURSIVE DecimalValue(_)
DecimalValue(u) ==
    IF u = <<>> THEN 0
    ELSE DecimalValue(SubSeq(u, 1, Len(u) - 1)) * 10 + DigitValue(u[Len(u)])

IntOf(tok) ==
    IF tok # <<>> /\ tok[1] = "-" THEN 0 - DecimalValue(Unsigned(tok))
    ELSE DecimalValue(Unsigned(tok))

No == <<"N", "o">>

\* main.py:43  whether evaluating the conditional expression raises
CountRaises(text) ==
    LET first == FirstToken(text) IN first # No /\ ~IsIntLiteral(first)

\* a slip: int(item.text[0]) reads the first character, not the first token
CountOf_FirstChar(text) ==
    LET first == FirstToken(text) IN IF first # No THEN DigitValue(text[1]) ELSE 0

\* main.py:43  n_contributions
CountOf(text) ==
    LET first == FirstToken(text) IN IF first # No THEN IntOf(first) ELSE 0

\* main.py:45  if date:
Truthy(date) == date.present /\ date.value # <<>>

----------------------------------------------------------------------------
(* The DataFrame *)

HasKey(tbl, key) == \E j \in 1..Len(tbl) : tbl[j].date = key

\* a slip: a date already in the index keeps its first value
SetLoc_KeepFirst(tbl, key, n) ==
    IF HasKey(tbl, key) THEN tbl
    ELSE Append(tbl, [date |-> key, contributions |-> n])

\* main.py:46  contributions.loc[date] = n_contributions
SetLoc(tbl, key, n) ==
    IF HasKey(tbl, key)
    THEN [j \in 1..Len(tbl) |->
            IF tbl[j].date = key THEN [tbl[j] EXCEPT !.contributions = n] ELSE tbl[j]]
    ELSE Append(tbl, [date |-> key, contributions |-> n])

Counts(tbl) == {tbl[j].contributions : j \in 1..Len(tbl)}

\* the zero check left out, as in a script without lines 48-50
MaxIsZero_Omitted(tbl) == FALSE

\* main.py:49  contributions['contributions'].max() == 0  (max of an empty
\* column is NaN, and NaN == 0 is False)
MaxIsZero(tbl) == tbl # <<>> /\ Max(Counts(tbl)) = 0

----------------------------------------------------------------------------
(* pd.to_datetime and .dayofweek *)

IsLeap(y) == (y % 4 = 0 /\ y % 100 # 0) \/ y % 400 = 0

DaysInMonth(y, m) ==
    IF m = 2 THEN (IF IsLeap(y) THEN 29 ELSE 28)
    ELSE IF m \in {4, 6, 9, 11} THEN 30 ELSE 31

IsCalendarDate(v) ==
    /\ Len(v) = 3
    /\ v[2] \in 1..12
    /\ v[3] >= 1
    /\ v[3] <= DaysInMonth(v[1], v[2])

\* days since 1970-01-01 of the proleptic Gregorian date v
DayNumber(v) ==
    LET y   == IF v[2] <= 2 THEN v[1] - 1 ELSE v[1]
        era == y \div 400
        yoe == y - era * 400
        mp  == IF v[2] > 2 THEN v[2] - 3 ELSE v[2] + 9
        doy == (153 * mp + 2) \div 5 + v[3] - 1
        doe == yoe * 365 + yoe \div 4 - yoe \div 100 + doy
    IN  era * 146097 + doe - 719468

\* main.py:53  pd.to_datetime(contributions.index)
IndexParses(tbl) == \A j \in 1..Len(tbl) : IsCalendarDate(tbl[j].date)

ToDatetime(tbl) ==
    [j \in 1..Len(tbl) |-> [tbl[j] EXCEPT !.date = DayNumber(tbl[j].date)]]

\* Timestamp.dayofweek, Monday = 0 (1970-01-01 was a Thursday)
DayOfWeek(ts) == (ts + 3) % 7

\* main.py:62
WithDayOfWeek(tbl) ==
    [j \in 1..Len(tbl) |->
        [date |-> tbl[j].date,
         contributions |-> tbl[j].contributions,
         day_of_week |-> DayOfWeek(tbl[j].date)]]

ListOf(rows) == [j \in 1..Len(rows) |-> rows[j].contributions]

\* main.py:63  groupby('day_of_week')['contributions'].apply(list): one entry
\* per weekday that occurs, in ascending weekday order
RECURSIVE GroupsFrom(_, _)
GroupsFrom(tbl, d) ==
    IF d > 6 THEN <<>>
    ELSE LET rows == SelectSeq(tbl, LAMBDA r : r.day_of_week = d)
             rest == GroupsFrom(tbl, d + 1)
         IN  IF rows = <<>> THEN rest
             ELSE <<[day_of_week |-> d, list |-> ListOf(rows)]>> \o rest

GroupBy(tbl) == GroupsFrom(tbl, 0)

\* main.py:61  contributions.index[0], contributions.index[-1]
IndexFirst(tbl) == tbl[1].date
IndexLast(tbl)  == tbl[Len(tbl)].date

RECURSIVE SumSeq(_)
SumSeq(s) == IF s = <<>> THEN 0 ELSE s[1] + SumSeq(Tail(s))

\* main.py:89  ax.violinplot(data, ...): positions default to 1..len(data);
\* data is the .values of the groupby result, the weekday keys are dropped
Violins(g) == [k \in 1..Len(g) |-> [x |-> k, counts |-> g[k].list]]

\* main.py:117-128  means.index + 1 against the group means (sum over size)
MeanMarkers(g) ==
    [k \in 1..Len(g) |->
        [x |-> g[k].day_of_week + 1, sum |-> SumSeq(g[k].list), n |-> Len(g[k].list)]]

\* main.py:131  savgol_filter(means, 3, 2) needs at least window_length points
SavgolWindow == 3
\* main.py:133  make_interp_spline(..., k=3) needs at least k + 1 points
SplineDegree == 3

NoFig == [drawn |-> FALSE, violins |-> <<>>, means |-> <<>>, timeframe |-> <<>>]

----------------------------------------------------------------------------
(* The run *)

Init ==
    /\ response \in Responses
    /\ pc = "start"
    /\ html = NoHtml
    /\ data = <<>>
    /\ i = 1
    /\ contributions = <<>>
    /\ start = 0
    /\ end = 0
    /\ groups = <<>>
    /\ fig = NoFig
    /\ file = "absent"
    /\ err = ""

Raise(e) ==
    /\ pc' = "failed"
    /\ err' = e

\* main.py:30-33  requests.get(url).text and the 'Not Found' check
Fetch ==
    /\ pc = "start"
    /\ IF ~response.ok
       THEN Raise("ConnectionError") /\ UNCHANGED html
       ELSE /\ html' = response.body
            /\ IF response.body.text = "Not Found"
               THEN Raise("ValueError: user not found")
               ELSE pc' = "fetched" /\ UNCHANGED err
    /\ UNCHANGED <<response, data, i, contributions, start, end, groups, fig, file>>

\* a slip: soup.find_all on the whole document, so that a missing container
\* gives an empty list of cells instead of an exception
FindCalendar_Lenient ==
    /\ pc = "fetched"
    /\ data' = html.cells
    /\ i' = 1
    /\ contributions' = <<>>
    /\ pc' = "loop"
    /\ UNCHANGED <<response, html, start, end, groups, fig, file, err>>

\* main.py:34-39  soup.find returns None when the container is absent, and
\* None.find_all raises AttributeError
FindCalendar ==
    /\ pc = "fetched"
    /\ IF ~html.hasCalendar
       THEN Raise("AttributeError") /\ UNCHANGED <<data, i, contributions>>
       ELSE /\ data' = html.cells
            /\ i' = 1
            /\ contributions' = <<>>
            /\ pc' = "loop"
            /\ UNCHANGED err
    /\ UNCHANGED <<response, html, start, end, groups, fig, file>>

\* main.py:41-46  one iteration of the for loop
LoopItem ==
    /\ pc = "loop"
    /\ i <= Len(data)
    /\ LET item == data[i] IN
        IF item.text = <<>>
        THEN /\ i' = i + 1
             /\ UNCHANGED <<pc, err, contributions>>
        ELSE IF CountRaises(item.text)
        THEN Raise("ValueError: invalid literal for int()") /\ UNCHANGED <<i, contributions>>
        ELSE /\ contributions' =
                    IF Truthy(item.date)
                    THEN SetLoc(contributions, item.date.value, CountOf(item.text))
                    ELSE contributions
             /\ i' = i + 1
             /\ UNCHANGED <<pc, err>>
    /\ UNCHANGED <<response, html, data, start, end, groups, fig, file>>

\* main.py:48-55  the zero check, the index parsed to dates, the return
ReturnContributions ==
    /\ pc = "loop"
    /\ i > Len(data)
    /\ IF MaxIsZero(contributions)
       THEN Raise("ValueError: no contributions") /\ UNCHANGED contributions
       ELSE IF ~IndexParses(contributions)
       THEN Raise("ValueError: to_datetime") /\ UNCHANGED contributions
       ELSE /\ contributions' = ToDatetime(contributions)
            /\ pc' = "extracted"
            /\ UNCHANGED err
    /\ UNCHANGED <<response, html, data, i, start, end, groups, fig, file>>

\* main.py:61-64  index[0] of an empty index raises IndexError
PlotPrepare ==
    /\ pc = "extracted"
    /\ IF contributions = <<>>
       THEN Raise("IndexError") /\ UNCHANGED <<contributions, start, end, groups>>
       ELSE /\ start' = IndexFirst(contributions)
            /\ end' = IndexLast(contributions)
            /\ contributions' = WithDayOfWeek(contributions)
            /\ groups' = GroupBy(WithDayOfWeek(contributions))
            /\ pc' = "prepared"
            /\ UNCHANGED err
    /\ UNCHANGED <<response, html, data, i, fig, file>>

\* main.py:73-83  add_violins, add_means, fix_layout, add_timeframe
Render ==
    /\ pc = "prepared"
    /\ IF Len(groups) < SavgolWindow
       THEN Raise("ValueError: savgol_filter") /\ UNCHANGED fig
       ELSE IF Len(groups) < SplineDegree + 1
       THEN Raise("ValueError: make_interp_spline") /\ UNCHANGED fig
       ELSE /\ fig' = [drawn |-> TRUE,
                       violins |-> Violins(groups),
                       means |-> MeanMarkers(groups),
                       timeframe |-> <<start, end>>]
            /\ pc' = "plotted"
            /\ UNCHANGED err
    /\ UNCHANGED <<response, html, data, i, contributions, start, end, groups, file>>

\* a slip: the write placed in a finally clause, so that it also runs when
\* plot_contributions raised after the figure was created
SaveFig_Finally ==
    /\ \/ pc = "plotted"
       \/ pc = "failed" /\ groups # <<>> /\ file = "absent"
    /\ file' = "written"
    /\ pc' = IF pc = "plotted" THEN "done" ELSE pc
    /\ UNCHANGED <<response, html, data, i, contributions, start, end, groups, fig, err>>

\* main.py:21  plot.savefig('contributions.png', dpi=300)
SaveFig ==
    /\ pc = "plotted"
    /\ file' = "written"
    /\ pc' = "done"
    /\ UNCHANGED <<response, html, data, i, contributions, start, end, groups, fig, err>>

Next ==
    \/ Fetch
    \/ FindCalendar
    \/ LoopItem
    \/ ReturnContributions
    \/ PlotPrepare
    \/ Render
    \/ SaveFig

Spec == Init /\ [][Next]_vars

----------------------------------------------------------------------------
(* What the properties below read off the input, stated without the model's *)
(* own parsing: the count each text of the alphabet stands for.            *)

StatedCount(text) ==
    CASE text = TextNo     -> 0
      [] text = TextZero   -> 0
      [] text = TextTwelve -> 12

\* cell k carries a date and a text, so the loop records it
Carries(k) == data[k].text # <<>> /\ data[k].date.present /\ data[k].date.value # <<>>

\* the index still holds the data-date values (line 53 has not run)
IndexUnparsed ==
    \/ pc = "loop"
    \/ /\ pc = "failed"
       /\ err \in {"ValueError: invalid literal for int()",
                   "ValueError: no contributions",
                   "ValueError: to_datetime"}

\* get_contributions has returned and plot_contributions passed line 64
Prepared == pc \in {"prepared", "plotted", "done"}

RowDates == {contributions[j].date : j \in 1..Len(contributions)}

----------------------------------------------------------------------------
(* Properties *)

\* C1: contributions.png is written only after fetching, extraction and
\* rendering all completed without error; a run in which any of them raised
\* (the 'Not Found' body included) has stopped for good with no file written.
C1_WrittenOnlyAfterSuccess ==
    /\ file = "written" =>
            /\ pc = "done"
            /\ err = ""
            /\ response.ok
            /\ html = response.body
            /\ html.text # "Not Found"
            /\ html.hasCalendar
            /\ i > Len(data)
            /\ groups # <<>>
            /\ fig.drawn
    /\ (pc = "failed" \/ err # "") =>
            /\ pc = "failed"
            /\ err # ""
            /\ file = "absent"
            /\ ~ENABLED Next
    /\ (pc # "start" /\ response.ok /\ response.body.text = "Not Found") =>
            /\ err = "ValueError: user not found"
            /\ file = "absent"

C1_Witness ==
    /\ file = "written"
    /\ fig.drawn
    /\ Len(contributions) >= 4

\* C2 (as claimed): whenever get_contributions returns, the table is non-empty
\* and holds a count above zero.
C2_ReturnedTableHasPositive ==
    pc = "extracted" =>
        /\ contributions # <<>>
        /\ \E j \in 1..Len(contributions) : contributions[j].contributions > 0

\* C3: when the loop has gone through every cell, the table has at least one
\* record and every count is 0, the run has failed with the no-contributions
\* error, and plot_contributions and the file write were never reached.
C3_AllZeroFails ==
    (/\ pc \notin {"start", "fetched", "loop"}
     /\ html.hasCalendar
     /\ i > Len(data)
     /\ contributions # <<>>
     /\ Counts(contributions) = {0}) =>
        /\ pc = "failed"
        /\ err = "ValueError: no contributions"
        /\ groups = <<>>
        /\ ~fig.drawn
        /\ file = "absent"
        /\ ~ENABLED Next

C3_Witness ==
    /\ err = "ValueError: no contributions"
    /\ Len(contributions) >= 2

\* C4: after any number of cells processed in document order the table has
\* at most one record per date, a record for every date a processed cell
\* carried, and each record's count is that of the last such cell.
C4_LastWriteWins ==
    IndexUnparsed =>
        /\ \A j, k \in 1..Len(contributions) :
                contributions[j].date = contributions[k].date => j = k
        /\ \A k \in 1..(i - 1) : Carries(k) => data[k].date.value \in RowDates
        /\ \A j \in 1..Len(contributions) :
                LET same == {k \in 1..(i - 1) :
                                Carries(k) /\ data[k].date.value = contributions[j].date}
                IN  /\ same # {}
                    /\ contributions[j].contributions = StatedCount(data[Max(same)].text)

C4_Witness ==
    /\ pc = "loop"
    /\ i = 3
    /\ Carries(1)
    /\ Carries(2)
    /\ data[1].date = data[2].date
    /\ data[1].text = TextNo
    /\ data[2].text = TextTwelve
    /\ Len(contributions) = 1
    /\ contributions[1].contributions = 12

\* C5: a page without the calendar container makes extraction fail with an
\* error raised for nothing else (the AttributeError of None.find_all): no
\* table is built, nothing is rendered, nothing is written.
C5_MissingContainerFails ==
    /\ (/\ pc \notin {"start", "fetched"}
        /\ response.ok
        /\ response.body.text # "Not Found"
        /\ ~response.body.hasCalendar) =>
            /\ pc = "failed"
            /\ err = "AttributeError"
            /\ data = <<>>
            /\ contributions = <<>>
            /\ groups = <<>>
            /\ ~fig.drawn
            /\ file = "absent"
    /\ err = "AttributeError" =>
            /\ html.text = "<html>"
            /\ ~html.hasCalendar

C5_Witness ==
    /\ pc = "failed"
    /\ err = "AttributeError"
    /\ response.body = Page(FALSE, <<>>)

\* C6 (as claimed): a cell without a data-date attribute is skipped whatever
\* its text is: extraction never fails on such a cell, and no record of the
\* table comes from one.
C6_NoDateCellSkipped ==
    /\ (pc = "failed" /\ err = "ValueError: invalid literal for int()") =>
            data[i].date.present
    /\ IndexUnparsed =>
            \A j \in 1..Len(contributions) :
                \E k \in 1..(i - 1) :
                    data[k].date.present /\ data[k].date.value = contributions[j].date

\* C7: right after the loop has processed a cell with a non-empty text and a
\* data-date, the count recorded for that date is 0 for a leading 'No' and the
\* integer the leading token spells otherwise.
C7_CountOfLeadingToken ==
    (/\ pc = "loop"
     /\ i > 1
     /\ Carries(i - 1)) =>
        \E j \in 1..Len(contributions) :
            /\ contributions[j].date = data[i - 1].date.value
            /\ contributions[j].contributions = StatedCount(data[i - 1].text)

C7_Witness ==
    /\ pc = "loop"
    /\ i = 3
    /\ Carries(1)
    /\ Carries(2)
    /\ data[1].text = TextNo
    /\ data[2].text = TextTwelve
    /\ data[1].date # data[2].date
    /\ contributions[1].contributions = 0
    /\ contributions[2].contributions = 12

\* C8 (as claimed): every record's day_of_week is in 0..6 and the groupby
\* gives exactly 7 buckets whose sizes sum to the size of the table.
C8_SevenBuckets ==
    Prepared =>
        /\ \A j \in 1..Len(contributions) : contributions[j].day_of_week \in 0..6
        /\ Len(groups) = 7
        /\ SumSeq([k \in 1..Len(groups) |-> Len(groups[k].list)]) = Len(contributions)

\* C9 (as claimed): start and end, as handed to the timeframe annotation, are
\* the smallest and the largest date of the table.
C9_StartEndAreMinMax ==
    Prepared =>
        /\ start = Min(RowDates)
        /\ end = Max(RowDates)
        /\ fig.drawn => fig.timeframe = <<Min(RowDates), Max(RowDates)>>

\* C10 (as claimed): the violin built from the counts of weekday d is drawn
\* at x = d + 1, where that weekday's mean marker is.
C10_ViolinAtWeekday ==
    fig.drawn =>
        /\ Len(fig.violins) = Len(groups)
        /\ Len(fig.means) = Len(groups)
        /\ \A k \in 1..Len(groups) :
                /\ fig.violins[k].counts = groups[k].list
                /\ fig.violins[k].x = groups[k].day_of_week + 1
                /\ fig.means[k].x = fig.violins[k].x

====
